---- MODULE Spec2Model ----
(***************************************************************************)
(* A model of the Google Cloud CAS adapter (package cloudcas) of            *)
(* src/pki/pki.go: the CloudCAS value built by New, and its operations      *)
(* GetCertificateAuthority, CreateCertificate, RenewCertificate,            *)
(* RevokeCertificate and CreateCertificateAuthority, run against a stub     *)
(* CertificateAuthorityClient whose replies are nondeterministic.           *)
(*                                                                          *)
(* A Go string is a sequence of atoms; the atom "/" is the path separator   *)
(* and every other atom stands for one character or for a non-empty run of  *)
(* characters without a separator.  The empty string is << >>.              *)
(*                                                                          *)
(* Every operation is cut at its remote calls: one action issues a call     *)
(* (and appends it to the log of the caller), the next one consumes the     *)
(* reply of the stub.                                                       *)
(***************************************************************************)
EXTENDS Integers, Sequences, FiniteSets, TLC

VARIABLES pki, cas, tpl, pc, req, loc, log, res

vars == <<pki, cas, tpl, pc, req, loc, log, res>>

(***************************************************************************)
(* Bounds of the model.                                                     *)
(***************************************************************************)
MaxChain == 2    \* longest PEM chain the stub returns
MaxExt == 1      \* longest ExtraExtensions list a template has when a call starts
ReasonSlack == 1 \* reason codes tried lie this far around the range 0..10
MaxName == 2     \* longest name given to normalizeCertificateAuthorityName on its own

AllCallers == {"c1", "c2"}
Callers == {"c1"}
Templates == {"t1"}

SeqsUpTo(S, n) == UNION {[1..k -> S] : k \in 0..n}

(***************************************************************************)
(* Strings.                                                                 *)
(***************************************************************************)
EmptyStr == << >>

RECURSIVE Split(_)
Split(s) ==
    IF s = << >> THEN << << >> >>
    ELSE IF Head(s) = "/" THEN << << >> >> \o Split(Tail(s))
    ELSE LET r == Split(Tail(s)) IN << <<Head(s)>> \o Head(r) >> \o Tail(r)

caRegexp(s) ==
    LET parts == Split(s) IN
    /\ Len(parts) = 6
    /\ parts[1] = <<"projects">>
    /\ parts[2] # << >>
    /\ parts[3] = <<"locations">>
    /\ parts[4] # << >>
    /\ parts[5] = <<"certificateAuthorities">>
    /\ parts[6] # << >>

(***************************************************************************)
(* Certificates, PEM blocks and the correlation extension.                  *)
(***************************************************************************)
OidCAS == "oidStepCertificateAuthority"
OidOther == "oidOther"
CloudCASType == "cloudCAS"
SoftCASType == "softCAS"

NoValue == [asn1ok |-> FALSE, Type |-> "", CertificateID |-> EmptyStr]

CreateCertificateAuthorityExtension(typ, certificateID) ==
    [Id |-> OidCAS,
     Value |-> [asn1ok |-> TRUE, Type |-> typ, CertificateID |-> certificateID]]

OtherExtension == [Id |-> OidOther, Value |-> NoValue]
MalformedExtension == [Id |-> OidCAS, Value |-> NoValue]

IsCASExtension(e) == e.Id = OidCAS

CountCAS(exts) == Cardinality({i \in 1..Len(exts) : IsCASExtension(exts[i])})

RemoveCertificateAuthorityExtension(exts) ==
    SelectSeq(exts, LAMBDA e : ~IsCASExtension(e))

FindCertificateAuthorityExtension(cert) ==
    LET idx == {i \in 1..Len(cert.Extensions) : IsCASExtension(cert.Extensions[i])} IN
    IF idx = {} THEN [ok |-> FALSE, ext |-> OtherExtension]
    ELSE [ok |-> TRUE,
          ext |-> cert.Extensions[CHOOSE i \in idx : \A j \in idx : i <= j]]

NilCert == [nil |-> TRUE, subject |-> "", Extensions |-> << >>]
Cert(subject, exts) == [nil |-> FALSE, subject |-> subject, Extensions |-> exts]

BadPem == [pemok |-> FALSE, der |-> NilCert]
Pem(c) == [pemok |-> TRUE, der |-> c]

parseCertificate(pemCert) ==
    IF pemCert.pemok THEN [ok |-> TRUE, cert |-> pemCert.der]
    ELSE [ok |-> FALSE, cert |-> NilCert]

CertA == Cert("a", << >>)
CertB == Cert("b", << >>)
PemSet == {Pem(CertA), Pem(CertB)}
PemChains ==
    SeqsUpTo(PemSet, MaxChain)
    \cup {<<BadPem>>, <<BadPem, Pem(CertA)>>, <<Pem(CertA), BadPem>>}

(***************************************************************************)
(* Errors and responses.                                                    *)
(***************************************************************************)
NoErr == [kind |-> "", what |-> ""]
Err(kind, what) == [kind |-> kind, what |-> what]

NoRes == [status |-> "none", err |-> NoErr, name |-> EmptyStr,
          cert |-> NilCert, chain |-> << >>]
Fail(kind, what) == [NoRes EXCEPT !.status = "error", !.err = Err(kind, what)]
Panic(what) == [NoRes EXCEPT !.status = "panic", !.err = Err("panic", what)]
Ok(name, cert, chain) ==
    [NoRes EXCEPT !.status = "ok", !.name = name, !.cert = cert, !.chain = chain]

(***************************************************************************)
(* Requests of the callers and calls on the remote client.                  *)
(***************************************************************************)
NoParent == [nil |-> TRUE, Name |-> EmptyStr]
NoKey == [nil |-> TRUE, SignatureAlgorithm |-> "Unspecified", Bits |-> 0]

NoReq == [op |-> "", Name |-> EmptyStr, Template |-> "nil", Lifetime |-> 0,
          RequestID |-> EmptyStr, Certificate |-> NilCert, ReasonCode |-> 0,
          Type |-> 0, Parent |-> NoParent, CreateKey |-> NoKey]

\* what the service answered to a call
NoReply == [Name |-> EmptyStr, PemCsr |-> "", PemCertificate |-> BadPem,
            PemCertificateChain |-> << >>]

\* a call on the client: the request sent and, in Reported, the answer the
\* service gave where a later step of the same operation depends on it
NoCall == [ep |-> "", deadline |-> "", outcome |-> "pending", Name |-> EmptyStr,
           Id |-> EmptyStr, exts |-> << >>, Reason |-> "", RequestId |-> EmptyStr,
           caType |-> "", PemCsr |-> "", PemCertificate |-> BadPem, PemChain |-> << >>,
           Reported |-> NoReply]

NoLoc == [id |-> EmptyStr, caID |-> EmptyStr, name |-> EmptyStr, reply |-> NoReply]

defaultContext == "short"
defaultInitiatorContext == "long"

Last(l) == l[Len(l)]
SetOutcome(l, o) == [l EXCEPT ![Len(l)].outcome = o]

(***************************************************************************)
(* New: construction of the adapter.                                        *)
(***************************************************************************)
NoCAS == [ok |-> FALSE, client |-> "", certificateAuthority |-> EmptyStr,
          project |-> EmptyStr, location |-> EmptyStr, clients |-> 0]

\* Construction without the check of the authority against the pattern.
New_NoRegexp(opts, clientOk) ==
    LET parts == Split(opts.CertificateAuthority)
        derive == ~opts.IsCreator /\ Len(parts) = 6
        project == IF derive /\ opts.Project = EmptyStr THEN parts[2] ELSE opts.Project
        location == IF derive /\ opts.Location = EmptyStr THEN parts[4] ELSE opts.Location
    IN
    IF opts.IsCreator /\ opts.Project = EmptyStr THEN NoCAS
    ELSE IF opts.IsCreator /\ opts.Location = EmptyStr THEN NoCAS
    ELSE IF ~opts.IsCreator /\ opts.CertificateAuthority = EmptyStr THEN NoCAS
    ELSE IF ~clientOk THEN [NoCAS EXCEPT !.clients = 1]
    ELSE [ok |-> TRUE, client |-> "client",
          certificateAuthority |-> opts.CertificateAuthority,
          project |-> project, location |-> location, clients |-> 1]

New(opts, clientOk) ==
    LET parts == Split(opts.CertificateAuthority)
        derive == ~opts.IsCreator /\ Len(parts) = 6
        project == IF derive /\ opts.Project = EmptyStr THEN parts[2] ELSE opts.Project
        location == IF derive /\ opts.Location = EmptyStr THEN parts[4] ELSE opts.Location
    IN
    IF opts.IsCreator /\ opts.Project = EmptyStr THEN NoCAS
    ELSE IF opts.IsCreator /\ opts.Location = EmptyStr THEN NoCAS
    ELSE IF ~opts.IsCreator /\ opts.CertificateAuthority = EmptyStr THEN NoCAS
    ELSE IF ~opts.IsCreator /\ ~caRegexp(opts.CertificateAuthority) THEN NoCAS
    ELSE IF ~clientOk THEN [NoCAS EXCEPT !.clients = 1]
    ELSE [ok |-> TRUE, client |-> "client",
          certificateAuthority |-> opts.CertificateAuthority,
          project |-> project, location |-> location, clients |-> 1]

CA1 == <<"projects", "/", "p1", "/", "locations", "/", "l1", "/",
         "certificateAuthorities", "/", "ca1">>
CA2 == <<"projects", "/", "p2", "/", "locations", "/", "l2", "/",
         "certificateAuthorities", "/", "ca2">>
BadCA == <<"projects", "/", "p1", "/", "certificateAuthorities", "/", "ca1">>

Options(isCreator, ca, project, location) ==
    [IsCreator |-> isCreator, CertificateAuthority |-> ca,
     Project |-> project, Location |-> location]

\* p.authorityOptions before SetAuthorityOptions
NilOptions == [nil |-> TRUE, Type |-> "",
               opts |-> Options(FALSE, EmptyStr, EmptyStr, EmptyStr)]

\* the PKI as pki.New leaves it: no authority options, no root fingerprint,
\* the paths of the intermediate certificate and key set; rootFile is the
\* certificate the file at p.root holds
NoPKI == [authorityOptions |-> NilOptions, rootFingerprint |-> EmptyStr,
          intermediate |-> <<"intermediate_ca.crt">>,
          intermediateKey |-> <<"intermediate_ca_key">>, rootFile |-> NilCert]

OptionsSet ==
    {Options(FALSE, CA1, EmptyStr, EmptyStr),
     Options(TRUE, CA1, <<"p1">>, <<"l1">>),
     Options(FALSE, BadCA, <<"p1">>, <<"l1">>),
     Options(FALSE, EmptyStr, <<"p1">>, <<"l1">>),
     Options(TRUE, CA1, EmptyStr, <<"l1">>)}

(***************************************************************************)
(* New on its own: options drawn from a product of authority identifiers,   *)
(* well and ill formed, with and without an explicit project and location,  *)
(* then the construction.                                                   *)
(***************************************************************************)
NewAuthorities ==
    {EmptyStr, CA1, CA2, BadCA,
     CA1 \o <<"/">>,
     CA1 \o <<"/", "x">>,
     <<"projects", "/", "/", "locations", "/", "l1", "/",
       "certificateAuthorities", "/", "ca1">>,
     <<"Projects", "/", "p1", "/", "locations", "/", "l1", "/",
       "certificateAuthorities", "/", "ca1">>}

NewOptions ==
    {Options(c, ca, p, l) : c \in BOOLEAN, ca \in NewAuthorities,
                            p \in {EmptyStr, <<"p9">>}, l \in {EmptyStr, <<"l9">>}}

InitNew ==
    /\ pki = NoPKI
    /\ cas = NoCAS
    /\ tpl = [t \in Templates |-> << >>]
    /\ pc = [p \in AllCallers |-> "idle"]
    /\ \E opts \in NewOptions :
           req = [p \in AllCallers |->
                     IF p \in Callers THEN [op |-> "New", opts |-> opts] ELSE NoReq]
    /\ loc = [p \in AllCallers |-> NoLoc]
    /\ log = [p \in AllCallers |-> << >>]
    /\ res = [p \in AllCallers |-> NoRes]

NewCall(p) ==
    /\ pc[p] = "idle"
    /\ req[p].op = "New"
    /\ \E clientOk \in BOOLEAN : cas' = New(req[p].opts, clientOk)
    /\ UNCHANGED pki
    /\ pc' = [pc EXCEPT ![p] = "done"]
    /\ res' = [res EXCEPT ![p] = IF cas'.ok THEN Ok(EmptyStr, NilCert, << >>)
                                 ELSE Fail("Error", "New")]
    /\ UNCHANGED <<tpl, req, loc, log>>

NextNew == \E p \in Callers : NewCall(p)

SpecNew == InitNew /\ [][NextNew]_vars

(***************************************************************************)
(* Initial state: an adapter as New returns it, templates as the callers    *)
(* hold them, no operation in progress.                                     *)
(***************************************************************************)
IDs == {<<"u1">>, <<"u2">>}
RequestIDs == {<<"r1">>}

InitExts ==
    {<< >>,
     <<OtherExtension>>,
     <<CreateCertificateAuthorityExtension(CloudCASType, <<"u1">>)>>,
     <<CreateCertificateAuthorityExtension(CloudCASType, <<"u1">>),
       CreateCertificateAuthorityExtension(SoftCASType, <<"u2">>)>>}

Init ==
    /\ pki = NoPKI
    /\ \E opts \in OptionsSet, clientOk \in BOOLEAN : cas = New(opts, clientOk)
    /\ tpl \in [Templates -> InitExts]
    /\ pc = [p \in AllCallers |-> "idle"]
    /\ req = [p \in AllCallers |-> NoReq]
    /\ loc = [p \in AllCallers |-> NoLoc]
    /\ log = [p \in AllCallers |-> << >>]
    /\ res = [p \in AllCallers |-> NoRes]

(***************************************************************************)
(* Steps shared by the operations.                                          *)
(***************************************************************************)
Begin(p, r) ==
    /\ cas.ok
    /\ pc[p] = "idle"
    /\ req' = [req EXCEPT ![p] = r]
    /\ UNCHANGED <<pki, cas>>

Finish(p, r) ==
    /\ pc' = [pc EXCEPT ![p] = "done"]
    /\ res' = [res EXCEPT ![p] = r]

Issue(p, label, call) ==
    /\ pc' = [pc EXCEPT ![p] = label]
    /\ log' = [log EXCEPT ![p] = Append(@, call)]
    /\ UNCHANGED res

Reply(p, outcome, r) ==
    /\ log' = [log EXCEPT ![p] = SetOutcome(@, outcome)]
    /\ Finish(p, r)

Continue(p, label, call) ==
    /\ pc' = [pc EXCEPT ![p] = label]
    /\ log' = [log EXCEPT ![p] = Append(SetOutcome(@, "ok"), call)]
    /\ UNCHANGED res

ContinueWith(p, label, reported, call) ==
    /\ pc' = [pc EXCEPT ![p] = label]
    /\ log' = [log EXCEPT ![p] =
                   Append([SetOutcome(@, "ok") EXCEPT ![Len(@)].Reported = reported], call)]
    /\ UNCHANGED res

Return(p) ==
    /\ pc[p] = "done"
    /\ pc' = [pc EXCEPT ![p] = "idle"]
    /\ req' = [req EXCEPT ![p] = NoReq]
    /\ loc' = [loc EXCEPT ![p] = NoLoc]
    /\ log' = [log EXCEPT ![p] = << >>]
    /\ res' = [res EXCEPT ![p] = NoRes]
    /\ UNCHANGED <<pki, cas, tpl>>

(***************************************************************************)
(* GetCertificateAuthority.                                                 *)
(***************************************************************************)
GetNames == {EmptyStr, CA2}

\* The first certificate of the chain taken for the root.
GetCertificateAuthorityResult_First(ok, pemCaCertificates) ==
    IF ~ok THEN Fail("RemoteError", "GetCertificateAuthority")
    ELSE IF Len(pemCaCertificates) = 0 THEN Fail("EmptyChain", "PemCACertificate")
    ELSE LET root == parseCertificate(pemCaCertificates[1]) IN
         IF ~root.ok THEN Fail("DecodeError", "parseCertificate")
         ELSE Ok(EmptyStr, root.cert, << >>)

GetCertificateAuthorityResult(ok, pemCaCertificates) ==
    IF ~ok THEN Fail("RemoteError", "GetCertificateAuthority")
    ELSE IF Len(pemCaCertificates) = 0 THEN Fail("EmptyChain", "PemCACertificate")
    ELSE LET root == parseCertificate(pemCaCertificates[Len(pemCaCertificates)]) IN
         IF ~root.ok THEN Fail("DecodeError", "parseCertificate")
         ELSE Ok(EmptyStr, root.cert, << >>)

GetCertificateAuthority(p) ==
    \E name \in GetNames :
        /\ Begin(p, [NoReq EXCEPT !.op = "GetCertificateAuthority", !.Name = name])
        /\ Issue(p, "get",
                 [NoCall EXCEPT !.ep = "GetCertificateAuthority",
                                !.deadline = defaultContext,
                                !.Name = IF name = EmptyStr
                                         THEN cas.certificateAuthority ELSE name])
        /\ UNCHANGED <<tpl, loc>>

\* A failed get tried once more.
GetCertificateAuthorityReply_Retry(p) ==
    /\ pc[p] = "get"
    /\ \E ok \in BOOLEAN, chain \in PemChains :
           IF ~ok /\ Len(log[p]) < 2 THEN
               /\ log' = [log EXCEPT ![p] = Append(SetOutcome(@, "err"), Last(@))]
               /\ UNCHANGED <<pc, res, loc>>
           ELSE
               /\ Reply(p, IF ok THEN "ok" ELSE "err", GetCertificateAuthorityResult(ok, chain))
               /\ loc' = [loc EXCEPT ![p].reply =
                              IF ok THEN [NoReply EXCEPT !.PemCertificateChain = chain]
                              ELSE NoReply]
    /\ UNCHANGED <<pki, cas, tpl, req>>

GetCertificateAuthorityReply(p) ==
    /\ pc[p] = "get"
    /\ \E ok \in BOOLEAN, chain \in PemChains :
           /\ Reply(p, IF ok THEN "ok" ELSE "err", GetCertificateAuthorityResult(ok, chain))
           /\ loc' = [loc EXCEPT ![p].reply =
                          IF ok THEN [NoReply EXCEPT !.PemCertificateChain = chain]
                          ELSE NoReply]
    /\ UNCHANGED <<pki, cas, tpl, req>>

(***************************************************************************)
(* CreateCertificate and RenewCertificate.                                  *)
(***************************************************************************)
NoID == [ok |-> FALSE, id |-> EmptyStr]
createCertificateID == {NoID} \cup {[ok |-> TRUE, id |-> i] : i \in IDs}

TemplateRefs == Templates \cup {"nil"}
Lifetimes == {0, 1}

\* The chain decoded with its last element.
getCertificateAndChain_WholeChain(certpb) ==
    LET cert == parseCertificate(certpb.PemCertificate)
        pemChain == certpb.PemCertificateChain
        chain == [i \in 1..Len(pemChain) |-> parseCertificate(pemChain[i])]
    IN
    IF ~cert.ok THEN Fail("DecodeError", "parseCertificate")
    ELSE IF \E i \in 1..Len(chain) : ~chain[i].ok THEN Fail("DecodeError", "parseCertificate")
    ELSE Ok(EmptyStr, cert.cert, [i \in 1..Len(chain) |-> chain[i].cert])

getCertificateAndChain(certpb) ==
    LET cert == parseCertificate(certpb.PemCertificate)
        n == Len(certpb.PemCertificateChain)
        pemChain == SubSeq(certpb.PemCertificateChain, 1, n - 1)
        chain == [i \in 1..Len(pemChain) |-> parseCertificate(pemChain[i])]
    IN
    IF ~cert.ok THEN Fail("DecodeError", "parseCertificate")
    ELSE IF n = 0 THEN Panic("slice bounds out of range")
    ELSE IF \E i \in 1..Len(chain) : ~chain[i].ok THEN Fail("DecodeError", "parseCertificate")
    ELSE Ok(EmptyStr, cert.cert, [i \in 1..Len(chain) |-> chain[i].cert])

CertificateReplies ==
    {[PemCertificate |-> Pem(CertA), PemCertificateChain |-> c] : c \in PemChains}
    \cup {[PemCertificate |-> BadPem, PemCertificateChain |-> <<Pem(CertB)>>]}

\* The new extension appended to the template as it is, nothing removed first.
createCertificate_NoStrip(p, t, lifetime, requestID) ==
    \E idr \in createCertificateID, extOk \in BOOLEAN, cfgOk \in BOOLEAN :
        LET stripped == tpl[t]
            casExtension == CreateCertificateAuthorityExtension(CloudCASType, idr.id)
            tagged == Append(stripped, casExtension)
        IN
        IF ~idr.ok THEN
            /\ tpl' = [tpl EXCEPT ![t] = stripped]
            /\ Finish(p, Fail("IDError", "createCertificateID"))
            /\ UNCHANGED <<loc, log>>
        ELSE IF ~extOk THEN
            /\ tpl' = [tpl EXCEPT ![t] = stripped]
            /\ Finish(p, Fail("EncodeError", "CreateCertificateAuthorityExtension"))
            /\ UNCHANGED <<loc, log>>
        ELSE IF ~cfgOk THEN
            /\ tpl' = [tpl EXCEPT ![t] = tagged]
            /\ Finish(p, Fail("UnsupportedValue", "createCertificateConfig"))
            /\ UNCHANGED <<loc, log>>
        ELSE
            /\ tpl' = [tpl EXCEPT ![t] = tagged]
            /\ loc' = [loc EXCEPT ![p].id = idr.id]
            /\ Issue(p, "create",
                     [NoCall EXCEPT !.ep = "CreateCertificate",
                                    !.deadline = defaultContext,
                                    !.Name = cas.certificateAuthority,
                                    !.Id = idr.id,
                                    !.exts = tagged,
                                    !.RequestId = requestID])

createCertificate(p, t, lifetime, requestID) ==
    \E idr \in createCertificateID, extOk \in BOOLEAN, cfgOk \in BOOLEAN :
        LET stripped == RemoveCertificateAuthorityExtension(tpl[t])
            casExtension == CreateCertificateAuthorityExtension(CloudCASType, idr.id)
            tagged == Append(stripped, casExtension)
        IN
        IF ~idr.ok THEN
            /\ tpl' = [tpl EXCEPT ![t] = stripped]
            /\ Finish(p, Fail("IDError", "createCertificateID"))
            /\ UNCHANGED <<loc, log>>
        ELSE IF ~extOk THEN
            /\ tpl' = [tpl EXCEPT ![t] = stripped]
            /\ Finish(p, Fail("EncodeError", "CreateCertificateAuthorityExtension"))
            /\ UNCHANGED <<loc, log>>
        ELSE IF ~cfgOk THEN
            /\ tpl' = [tpl EXCEPT ![t] = tagged]
            /\ Finish(p, Fail("UnsupportedValue", "createCertificateConfig"))
            /\ UNCHANGED <<loc, log>>
        ELSE
            /\ tpl' = [tpl EXCEPT ![t] = tagged]
            /\ loc' = [loc EXCEPT ![p].id = idr.id]
            /\ Issue(p, "create",
                     [NoCall EXCEPT !.ep = "CreateCertificate",
                                    !.deadline = defaultContext,
                                    !.Name = cas.certificateAuthority,
                                    !.Id = idr.id,
                                    !.exts = tagged,
                                    !.RequestId = requestID])

CreateCertificateCheck(t, lifetime) ==
    IF t = "nil" THEN Err("ValidationError", "template")
    ELSE IF lifetime = 0 THEN Err("ValidationError", "lifetime")
    ELSE NoErr

CreateCertificate(p) ==
    \E t \in TemplateRefs, lifetime \in Lifetimes, rid \in RequestIDs :
        LET err == CreateCertificateCheck(t, lifetime) IN
        /\ Begin(p, [NoReq EXCEPT !.op = "CreateCertificate", !.Template = t,
                                  !.Lifetime = lifetime, !.RequestID = rid])
        /\ IF err # NoErr THEN
               /\ Finish(p, Fail(err.kind, err.what))
               /\ UNCHANGED <<tpl, loc, log>>
           ELSE createCertificate(p, t, lifetime, rid)

\* The lifetime examined before the template.
RenewCertificateCheck_LifetimeFirst(t, lifetime) ==
    IF lifetime = 0 THEN Err("ValidationError", "lifetime")
    ELSE IF t = "nil" THEN Err("ValidationError", "template")
    ELSE NoErr

RenewCertificateCheck(t, lifetime) ==
    IF t = "nil" THEN Err("ValidationError", "template")
    ELSE IF lifetime = 0 THEN Err("ValidationError", "lifetime")
    ELSE NoErr

RenewCertificate(p) ==
    \E t \in TemplateRefs, lifetime \in Lifetimes, rid \in RequestIDs :
        LET err == RenewCertificateCheck(t, lifetime) IN
        /\ Begin(p, [NoReq EXCEPT !.op = "RenewCertificate", !.Template = t,
                                  !.Lifetime = lifetime, !.RequestID = rid])
        /\ IF err # NoErr THEN
               /\ Finish(p, Fail(err.kind, err.what))
               /\ UNCHANGED <<tpl, loc, log>>
           ELSE createCertificate(p, t, lifetime, rid)

createCertificateResult(ok, certpb) ==
    IF ~ok THEN Fail("RemoteError", "CreateCertificate")
    ELSE getCertificateAndChain(certpb)

CreateCertificateReply(p) ==
    /\ pc[p] = "create"
    /\ \E ok \in BOOLEAN, certpb \in CertificateReplies :
           /\ Reply(p, IF ok THEN "ok" ELSE "err", createCertificateResult(ok, certpb))
           /\ loc' = [loc EXCEPT ![p].reply =
                          IF ok THEN [NoReply EXCEPT
                                         !.PemCertificate = certpb.PemCertificate,
                                         !.PemCertificateChain = certpb.PemCertificateChain]
                          ELSE NoReply]
    /\ UNCHANGED <<pki, cas, tpl, req>>

(***************************************************************************)
(* RevokeCertificate.                                                       *)
(***************************************************************************)
\* The table with an entry for every code of RFC 5280.
revocationCodeMap_All == [c \in 0..10 |-> "REVOCATION_REASON_UNSPECIFIED"]

revocationCodeMap ==
    [c \in {0, 1, 2, 3, 4, 5, 6, 9, 10} |->
        CASE c = 0 -> "REVOCATION_REASON_UNSPECIFIED"
          [] c = 1 -> "KEY_COMPROMISE"
          [] c = 2 -> "CERTIFICATE_AUTHORITY_COMPROMISE"
          [] c = 3 -> "AFFILIATION_CHANGED"
          [] c = 4 -> "SUPERSEDED"
          [] c = 5 -> "CESSATION_OF_OPERATION"
          [] c = 6 -> "CERTIFICATE_HOLD"
          [] c = 9 -> "PRIVILEGE_WITHDRAWN"
          [] c = 10 -> "ATTRIBUTE_AUTHORITY_COMPROMISE"]

ReasonCodes == (0 - ReasonSlack)..(10 + ReasonSlack)

RevokeCerts ==
    {NilCert,
     Cert("a", << >>),
     Cert("a", <<OtherExtension>>),
     Cert("a", <<OtherExtension, CreateCertificateAuthorityExtension(CloudCASType, <<"u1">>)>>),
     Cert("b", <<CreateCertificateAuthorityExtension(SoftCASType, <<"u2">>)>>),
     Cert("b", <<MalformedExtension>>)}

asn1Unmarshal(value) ==
    IF value.asn1ok THEN [ok |-> TRUE, cae |-> value] ELSE [ok |-> FALSE, cae |-> NoValue]

\* The checks without the one that the extension was found.
RevokeCertificateCheck_NoFound(code, cert) ==
    LET ok == code \in DOMAIN revocationCodeMap
        found == FindCertificateAuthorityExtension(cert)
        dec == asn1Unmarshal(found.ext.Value)
    IN
    IF ~ok THEN Err("InvalidRevocationReason", "reasonCode")
    ELSE IF cert.nil THEN Err("ValidationError", "certificate")
    ELSE IF ~dec.ok THEN Err("DecodeError", "asn1.Unmarshal")
    ELSE NoErr

RevokeCertificateCheck(code, cert) ==
    LET ok == code \in DOMAIN revocationCodeMap
        found == FindCertificateAuthorityExtension(cert)
        dec == asn1Unmarshal(found.ext.Value)
    IN
    IF ~ok THEN Err("InvalidRevocationReason", "reasonCode")
    ELSE IF cert.nil THEN Err("ValidationError", "certificate")
    ELSE IF ~found.ok THEN Err("MissingCorrelation", "extension")
    ELSE IF ~dec.ok THEN Err("DecodeError", "asn1.Unmarshal")
    ELSE NoErr

\* The revoke call addressed without the certificates collection in the name.
RevokeCertificate_NoCollection(p) ==
    \E code \in ReasonCodes, cert \in RevokeCerts, rid \in RequestIDs :
        LET err == RevokeCertificateCheck(code, cert)
            dec == asn1Unmarshal(FindCertificateAuthorityExtension(cert).ext.Value)
        IN
        /\ Begin(p, [NoReq EXCEPT !.op = "RevokeCertificate", !.Certificate = cert,
                                  !.ReasonCode = code, !.RequestID = rid])
        /\ UNCHANGED <<tpl, loc>>
        /\ IF err # NoErr THEN
               /\ Finish(p, Fail(err.kind, err.what))
               /\ UNCHANGED log
           ELSE
               Issue(p, "revoke",
                     [NoCall EXCEPT !.ep = "RevokeCertificate",
                                    !.deadline = defaultContext,
                                    !.Name = cas.certificateAuthority \o <<"/">>
                                             \o dec.cae.CertificateID,
                                    !.Reason = revocationCodeMap[code],
                                    !.RequestId = rid])

RevokeCertificate(p) ==
    \E code \in ReasonCodes, cert \in RevokeCerts, rid \in RequestIDs :
        LET err == RevokeCertificateCheck(code, cert)
            dec == asn1Unmarshal(FindCertificateAuthorityExtension(cert).ext.Value)
        IN
        /\ Begin(p, [NoReq EXCEPT !.op = "RevokeCertificate", !.Certificate = cert,
                                  !.ReasonCode = code, !.RequestID = rid])
        /\ UNCHANGED <<tpl, loc>>
        /\ IF err # NoErr THEN
               /\ Finish(p, Fail(err.kind, err.what))
               /\ UNCHANGED log
           ELSE
               Issue(p, "revoke",
                     [NoCall EXCEPT !.ep = "RevokeCertificate",
                                    !.deadline = defaultContext,
                                    !.Name = cas.certificateAuthority
                                             \o <<"/", "certificates", "/">>
                                             \o dec.cae.CertificateID,
                                    !.Reason = revocationCodeMap[code],
                                    !.RequestId = rid])

RevokeCertificateResult(ok, certpb) ==
    IF ~ok THEN Fail("RemoteError", "RevokeCertificate")
    ELSE getCertificateAndChain(certpb)

RevokeCertificateReply(p) ==
    /\ pc[p] = "revoke"
    /\ \E ok \in BOOLEAN, certpb \in CertificateReplies :
           /\ Reply(p, IF ok THEN "ok" ELSE "err", RevokeCertificateResult(ok, certpb))
           /\ loc' = [loc EXCEPT ![p].reply =
                          IF ok THEN [NoReply EXCEPT
                                         !.PemCertificate = certpb.PemCertificate,
                                         !.PemCertificateChain = certpb.PemCertificateChain]
                          ELSE NoReply]
    /\ UNCHANGED <<pki, cas, tpl, req>>

(***************************************************************************)
(* CreateCertificateAuthority and the subordinate-signing handshake.        *)
(***************************************************************************)
RootCA == 1
IntermediateCA == 2
Types == {0, RootCA, IntermediateCA}

Parents == {NoParent, [nil |-> FALSE, Name |-> EmptyStr], [nil |-> FALSE, Name |-> CA1]}

Key(alg, bits) == [nil |-> FALSE, SignatureAlgorithm |-> alg, Bits |-> bits]
CreateKeys == {NoKey, Key("SHA256WithRSA", 1024)}

createKeyVersionSpec(alg, bits) ==
    CASE alg \in {"Unspecified", "ECDSAWithSHA256"} -> [ok |-> TRUE, spec |-> "EC_P256_SHA256"]
      [] alg = "ECDSAWithSHA384" -> [ok |-> TRUE, spec |-> "EC_P384_SHA384"]
      [] alg = "SHA256WithRSA" /\ bits \in {0, 3072} -> [ok |-> TRUE, spec |-> "RSA_PKCS1_3072_SHA256"]
      [] alg = "SHA256WithRSA" /\ bits = 2048 -> [ok |-> TRUE, spec |-> "RSA_PKCS1_2048_SHA256"]
      [] alg = "SHA256WithRSA" /\ bits = 4096 -> [ok |-> TRUE, spec |-> "RSA_PKCS1_4096_SHA256"]
      [] OTHER -> [ok |-> FALSE, spec |-> ""]

Code ==
    [c \in {"a", "m", "z", "A", "Z", "0", "9", "-", "_", " ", "/", ":", "@", "[", "U+0060",
            "{", "U+00E9"} |->
        CASE c = "a" -> 97 [] c = "m" -> 109 [] c = "z" -> 122 [] c = "A" -> 65
          [] c = "Z" -> 90 [] c = "0" -> 48 [] c = "9" -> 57 [] c = "-" -> 45
          [] c = "_" -> 95 [] c = " " -> 32 [] c = "/" -> 47 [] c = ":" -> 58
          [] c = "@" -> 64 [] c = "[" -> 91 [] c = "U+0060" -> 96 [] c = "{" -> 123
          [] c = "U+00E9" -> 233]

Chars == DOMAIN Code

\* The letter ranges taken without their end points.
normalizeRune_Exclusive(r) ==
    CASE Code[r] > Code["a"] /\ Code[r] < Code["z"] -> r
      [] Code[r] > Code["A"] /\ Code[r] < Code["Z"] -> r
      [] Code[r] >= Code["0"] /\ Code[r] <= Code["9"] -> r
      [] r = "-" -> r
      [] r = "_" -> r
      [] OTHER -> "-"

normalizeRune(r) ==
    CASE Code[r] >= Code["a"] /\ Code[r] <= Code["z"] -> r
      [] Code[r] >= Code["A"] /\ Code[r] <= Code["Z"] -> r
      [] Code[r] >= Code["0"] /\ Code[r] <= Code["9"] -> r
      [] r = "-" -> r
      [] r = "_" -> r
      [] OTHER -> "-"

normalizeCertificateAuthorityName_Drop(name) ==
    SelectSeq(name, LAMBDA r : normalizeRune(r) = r)

normalizeCertificateAuthorityName(name) ==
    [i \in 1..Len(name) |-> normalizeRune(name[i])]

AuthorityNames == {EmptyStr, <<" ">>}

(***************************************************************************)
(* normalizeCertificateAuthorityName on its own: a name drawn from the      *)
(* strings of at most MaxName characters, normalized, and the result        *)
(* normalized again.                                                        *)
(***************************************************************************)
NormalizeNames == SeqsUpTo(Chars, MaxName)

InitNormalize ==
    /\ pki = NoPKI
    /\ cas = NoCAS
    /\ tpl = [t \in Templates |-> << >>]
    /\ pc = [p \in AllCallers |-> "idle"]
    /\ \E name \in NormalizeNames :
           req = [p \in AllCallers |->
                     IF p \in Callers
                     THEN [NoReq EXCEPT !.op = "normalize", !.Name = name]
                     ELSE NoReq]
    /\ loc = [p \in AllCallers |-> NoLoc]
    /\ log = [p \in AllCallers |-> << >>]
    /\ res = [p \in AllCallers |-> NoRes]

Normalize(p) ==
    /\ pc[p] = "idle"
    /\ req[p].op = "normalize"
    /\ Finish(p, Ok(normalizeCertificateAuthorityName(req[p].Name), NilCert, << >>))
    /\ UNCHANGED <<pki, cas, tpl, req, loc, log>>

NormalizeAgain(p) ==
    /\ pc[p] = "done"
    /\ req[p].op = "normalize"
    /\ pc' = [pc EXCEPT ![p] = "again"]
    /\ loc' = [loc EXCEPT ![p].name = normalizeCertificateAuthorityName(res[p].name)]
    /\ UNCHANGED <<pki, cas, tpl, req, log, res>>

NextNormalize == \E p \in Callers : Normalize(p) \/ NormalizeAgain(p)

SpecNormalize == InitNormalize /\ [][NextNormalize]_vars

CA3 == <<"projects", "/", "p1", "/", "locations", "/", "l1", "/",
         "certificateAuthorities", "/", "ca3">>

AuthorityReplies ==
    {[Name |-> CA2, PemCaCertificates |-> c] : c \in PemChains}
    \cup {[Name |-> CA3, PemCaCertificates |-> <<Pem(CertA), Pem(CertB)>>]}

\* The stub answers a CSR fetch with the CSR of the authority asked for, and a
\* signing request with a certificate for the CSR presented.
CsrReplies(name) == {IF name = CA2 THEN "csr-ca2" ELSE "csr-ca3"}

SignReplies(csr) ==
    {[PemCertificate |-> Pem(Cert(csr, << >>)), PemCertificateChain |-> <<Pem(CertB)>>]}

WaitOutcomes == {"ok", "err", "timeout"}

\* The checks without the one on the lifetime.
CreateCertificateAuthorityCheck_NoLifetime(c, t, lifetime, type, parent) ==
    IF c.project = EmptyStr THEN Err("ConfigError", "project")
    ELSE IF c.location = EmptyStr THEN Err("ConfigError", "location")
    ELSE IF t = "nil" THEN Err("ValidationError", "template")
    ELSE IF type = IntermediateCA /\ parent.nil THEN Err("ValidationError", "parent")
    ELSE IF type = IntermediateCA /\ parent.Name = EmptyStr
         THEN Err("ValidationError", "parent.name")
    ELSE NoErr

\* The checks with the parent required whatever the type.
CreateCertificateAuthorityCheck_AnyType(c, t, lifetime, type, parent) ==
    IF c.project = EmptyStr THEN Err("ConfigError", "project")
    ELSE IF c.location = EmptyStr THEN Err("ConfigError", "location")
    ELSE IF t = "nil" THEN Err("ValidationError", "template")
    ELSE IF lifetime = 0 THEN Err("ValidationError", "lifetime")
    ELSE IF parent.nil THEN Err("ValidationError", "parent")
    ELSE IF parent.Name = EmptyStr THEN Err("ValidationError", "parent.name")
    ELSE NoErr

\* The checks without the one on the parent's name.
CreateCertificateAuthorityCheck_NoParentName(c, t, lifetime, type, parent) ==
    IF c.project = EmptyStr THEN Err("ConfigError", "project")
    ELSE IF c.location = EmptyStr THEN Err("ConfigError", "location")
    ELSE IF t = "nil" THEN Err("ValidationError", "template")
    ELSE IF lifetime = 0 THEN Err("ValidationError", "lifetime")
    ELSE IF type = IntermediateCA /\ parent.nil THEN Err("ValidationError", "parent")
    ELSE NoErr

CreateCertificateAuthorityCheck(c, t, lifetime, type, parent) ==
    IF c.project = EmptyStr THEN Err("ConfigError", "project")
    ELSE IF c.location = EmptyStr THEN Err("ConfigError", "location")
    ELSE IF t = "nil" THEN Err("ValidationError", "template")
    ELSE IF lifetime = 0 THEN Err("ValidationError", "lifetime")
    ELSE IF type = IntermediateCA /\ parent.nil THEN Err("ValidationError", "parent")
    ELSE IF type = IntermediateCA /\ parent.Name = EmptyStr
         THEN Err("ValidationError", "parent.name")
    ELSE NoErr

CreateCertificateAuthority(p) ==
    \E t \in TemplateRefs, lifetime \in Lifetimes, type \in Types, parent \in Parents,
       key \in CreateKeys, name \in AuthorityNames, rid \in RequestIDs,
       idr \in createCertificateID, extOk \in BOOLEAN :
        LET err == CreateCertificateAuthorityCheck(cas, t, lifetime, type, parent)
            keySpec == IF key.nil THEN createKeyVersionSpec("Unspecified", 0)
                       ELSE createKeyVersionSpec(key.SignatureAlgorithm, key.Bits)
            normalized == normalizeCertificateAuthorityName(name)
            certificateAuthorityID == IF normalized = EmptyStr THEN idr.id ELSE normalized
            casExtension == CreateCertificateAuthorityExtension(CloudCASType, certificateAuthorityID)
            tagged == Append(tpl[t], casExtension)
            local(kind, what) ==
                /\ Finish(p, Fail(kind, what))
                /\ UNCHANGED <<tpl, loc, log>>
        IN
        /\ Begin(p, [NoReq EXCEPT !.op = "CreateCertificateAuthority", !.Template = t,
                                  !.Lifetime = lifetime, !.Type = type, !.Parent = parent,
                                  !.CreateKey = key, !.Name = name, !.RequestID = rid])
        /\ t # "nil" => Len(tpl[t]) <= MaxExt
        /\ IF err # NoErr THEN local(err.kind, err.what)
           ELSE IF ~keySpec.ok THEN local("UnsupportedValue", "createKey")
           ELSE IF normalized = EmptyStr /\ ~idr.ok THEN local("IDError", "createCertificateID")
           ELSE IF ~extOk THEN local("EncodeError", "CreateCertificateAuthorityExtension")
           ELSE IF type \notin {RootCA, IntermediateCA} THEN
               /\ tpl' = [tpl EXCEPT ![t] = tagged]
               /\ Finish(p, Fail("UnsupportedValue", "type"))
               /\ UNCHANGED <<loc, log>>
           ELSE
               /\ tpl' = [tpl EXCEPT ![t] = tagged]
               /\ loc' = [loc EXCEPT ![p].caID = certificateAuthorityID]
               /\ Issue(p, "ca_create",
                        [NoCall EXCEPT !.ep = "CreateCertificateAuthority",
                                       !.deadline = defaultContext,
                                       !.Name = <<"projects", "/">> \o cas.project
                                                \o <<"/", "locations", "/">> \o cas.location,
                                       !.Id = certificateAuthorityID,
                                       !.exts = tagged,
                                       !.caType = IF type = RootCA THEN "SELF_SIGNED"
                                                  ELSE "SUBORDINATE",
                                       !.RequestId = rid])

CreateCertificateAuthorityReply(p) ==
    /\ pc[p] = "ca_create"
    /\ \E ok \in BOOLEAN :
           IF ~ok THEN Reply(p, "err", Fail("RemoteError", "CreateCertificateAuthority"))
           ELSE Continue(p, "ca_wait",
                         [NoCall EXCEPT !.ep = "Wait", !.deadline = defaultInitiatorContext])
    /\ UNCHANGED <<pki, cas, tpl, req, loc>>

\* The chain of the authority returned without its last element.
CertificateAuthorityResult_DropLast(ca) ==
    LET n == Len(ca.PemCaCertificates)
        cert == parseCertificate(ca.PemCaCertificates[1])
        pemChain == SubSeq(ca.PemCaCertificates, 2, n - 1)
        chain == [i \in 1..Len(pemChain) |-> parseCertificate(pemChain[i])]
    IN
    IF n = 0 THEN Fail("EmptyChain", "PemCaCertificates")
    ELSE IF ~cert.ok THEN Fail("DecodeError", "parseCertificate")
    ELSE IF \E i \in 1..Len(chain) : ~chain[i].ok THEN Fail("DecodeError", "parseCertificate")
    ELSE Ok(ca.Name, cert.cert, [i \in 1..Len(chain) |-> chain[i].cert])

CertificateAuthorityResult(ca) ==
    LET n == Len(ca.PemCaCertificates)
        cert == parseCertificate(ca.PemCaCertificates[1])
        pemChain == SubSeq(ca.PemCaCertificates, 2, n)
        chain == [i \in 1..Len(pemChain) |-> parseCertificate(pemChain[i])]
    IN
    IF n = 0 THEN Fail("EmptyChain", "PemCaCertificates")
    ELSE IF ~cert.ok THEN Fail("DecodeError", "parseCertificate")
    ELSE IF \E i \in 1..Len(chain) : ~chain[i].ok THEN Fail("DecodeError", "parseCertificate")
    ELSE Ok(ca.Name, cert.cert, [i \in 1..Len(chain) |-> chain[i].cert])

\* A deadline that ran out reported like any other failure.
WaitFailure_Generic(outcome, what) == Fail("RemoteError", what)

WaitFailure(outcome, what) ==
    IF outcome = "timeout" THEN Fail("OperationTimeout", what) ELSE Fail("RemoteError", what)

signIntermediateCA(p, name, ca) ==
    \E idr \in createCertificateID :
        IF ~idr.ok THEN
            /\ Reply(p, "ok", Fail("IDError", "createCertificateID"))
            /\ UNCHANGED loc
        ELSE
            /\ loc' = [loc EXCEPT ![p].id = idr.id, ![p].name = name]
            /\ ContinueWith(p, "ca_csr", [NoReply EXCEPT !.Name = ca.Name],
                        [NoCall EXCEPT !.ep = "FetchCertificateAuthorityCsr",
                                       !.deadline = defaultInitiatorContext,
                                       !.Name = name])

\* The handshake run whatever the type of the authority.
WaitCreateReply_AlwaysSign(p) ==
    /\ pc[p] = "ca_wait"
    /\ \E outcome \in WaitOutcomes, ca \in AuthorityReplies :
           IF outcome # "ok" THEN
               /\ Reply(p, outcome, WaitFailure(outcome, "CreateCertificateAuthority"))
               /\ UNCHANGED loc
           ELSE signIntermediateCA(p, ca.Name, ca)
    /\ UNCHANGED <<pki, cas, tpl, req>>

WaitCreateReply(p) ==
    /\ pc[p] = "ca_wait"
    /\ \E outcome \in WaitOutcomes, ca \in AuthorityReplies :
           IF outcome # "ok" THEN
               /\ Reply(p, outcome, WaitFailure(outcome, "CreateCertificateAuthority"))
               /\ UNCHANGED loc
           ELSE IF req[p].Type = IntermediateCA THEN signIntermediateCA(p, ca.Name, ca)
           ELSE
               /\ Reply(p, "ok", CertificateAuthorityResult(ca))
               /\ loc' = [loc EXCEPT ![p].reply.Name = ca.Name,
                                     ![p].reply.PemCertificateChain = ca.PemCaCertificates]
    /\ UNCHANGED <<pki, cas, tpl, req>>

\* A failed CSR fetch tried again.
FetchCsrReply_Retry(p) ==
    /\ pc[p] = "ca_csr"
    /\ \E ok \in BOOLEAN, csr \in CsrReplies(loc[p].name) :
           IF ~ok THEN
               /\ log' = [log EXCEPT ![p] = Append(SetOutcome(@, "err"), Last(@))]
               /\ Len(log[p]) < 5
               /\ UNCHANGED <<pc, res>>
           ELSE Continue(p, "ca_sign",
                         [NoCall EXCEPT !.ep = "CreateCertificate",
                                        !.deadline = defaultInitiatorContext,
                                        !.Name = req[p].Parent.Name,
                                        !.Id = loc[p].id,
                                        !.PemCsr = csr,
                                        !.RequestId = req[p].RequestID])
    /\ UNCHANGED <<pki, cas, tpl, req, loc>>

FetchCsrReply(p) ==
    /\ pc[p] = "ca_csr"
    /\ \E ok \in BOOLEAN, csr \in CsrReplies(Last(log[p]).Name) :
           IF ~ok THEN Reply(p, "err", Fail("RemoteError", "FetchCertificateAuthorityCsr"))
           ELSE ContinueWith(p, "ca_sign", [NoReply EXCEPT !.PemCsr = csr],
                         [NoCall EXCEPT !.ep = "CreateCertificate",
                                        !.deadline = defaultInitiatorContext,
                                        !.Name = req[p].Parent.Name,
                                        !.Id = loc[p].id,
                                        !.PemCsr = csr,
                                        !.RequestId = req[p].RequestID])
    /\ UNCHANGED <<pki, cas, tpl, req, loc>>

\* The activation addressed to the parent authority.
SignReply_ActivateParent(p) ==
    /\ pc[p] = "ca_sign"
    /\ \E ok \in BOOLEAN, sign \in SignReplies(Last(log[p]).PemCsr) :
           IF ~ok THEN Reply(p, "err", Fail("RemoteError", "CreateCertificate"))
           ELSE ContinueWith(p, "ca_activate",
                         [NoReply EXCEPT !.PemCertificate = sign.PemCertificate,
                                         !.PemCertificateChain = sign.PemCertificateChain],
                         [NoCall EXCEPT !.ep = "ActivateCertificateAuthority",
                                        !.deadline = defaultInitiatorContext,
                                        !.Name = req[p].Parent.Name,
                                        !.PemCertificate = sign.PemCertificate,
                                        !.PemChain = sign.PemCertificateChain,
                                        !.RequestId = req[p].RequestID])
    /\ UNCHANGED <<pki, cas, tpl, req, loc>>

SignReply(p) ==
    /\ pc[p] = "ca_sign"
    /\ \E ok \in BOOLEAN, sign \in SignReplies(Last(log[p]).PemCsr) :
           IF ~ok THEN Reply(p, "err", Fail("RemoteError", "CreateCertificate"))
           ELSE ContinueWith(p, "ca_activate",
                         [NoReply EXCEPT !.PemCertificate = sign.PemCertificate,
                                         !.PemCertificateChain = sign.PemCertificateChain],
                         [NoCall EXCEPT !.ep = "ActivateCertificateAuthority",
                                        !.deadline = defaultInitiatorContext,
                                        !.Name = loc[p].name,
                                        !.PemCertificate = sign.PemCertificate,
                                        !.PemChain = sign.PemCertificateChain,
                                        !.RequestId = req[p].RequestID])
    /\ UNCHANGED <<pki, cas, tpl, req, loc>>

\* The activation answered without waiting on its operation.
ActivateReply_NoWait(p) ==
    /\ pc[p] = "ca_activate"
    /\ \E ok \in BOOLEAN :
           IF ~ok THEN Reply(p, "err", Fail("RemoteError", "ActivateCertificateAuthority1"))
           ELSE Reply(p, "ok", Ok(loc[p].name, NilCert, << >>))
    /\ UNCHANGED <<pki, cas, tpl, req, loc>>

ActivateReply(p) ==
    /\ pc[p] = "ca_activate"
    /\ \E ok \in BOOLEAN :
           IF ~ok THEN Reply(p, "err", Fail("RemoteError", "ActivateCertificateAuthority1"))
           ELSE Continue(p, "ca_actwait",
                         [NoCall EXCEPT !.ep = "Wait", !.deadline = defaultInitiatorContext])
    /\ UNCHANGED <<pki, cas, tpl, req, loc>>

\* The adapter adopting the authority it has just activated.
WaitActivateReply_Adopt(p) ==
    /\ pc[p] = "ca_actwait"
    /\ \E outcome \in WaitOutcomes, ca \in AuthorityReplies :
           IF outcome # "ok" THEN
               /\ Reply(p, outcome, WaitFailure(outcome, "ActivateCertificateAuthority"))
               /\ UNCHANGED <<pki, cas, loc>>
           ELSE
               /\ Reply(p, "ok", CertificateAuthorityResult(ca))
               /\ cas' = [cas EXCEPT !.certificateAuthority = ca.Name]
               /\ UNCHANGED pki
               /\ loc' = [loc EXCEPT ![p].reply.Name = ca.Name,
                                     ![p].reply.PemCertificateChain = ca.PemCaCertificates]
    /\ UNCHANGED <<tpl, req>>

WaitActivateReply(p) ==
    /\ pc[p] = "ca_actwait"
    /\ \E outcome \in WaitOutcomes, ca \in AuthorityReplies :
           IF outcome # "ok" THEN
               /\ Reply(p, outcome, WaitFailure(outcome, "ActivateCertificateAuthority"))
               /\ UNCHANGED loc
           ELSE
               /\ Reply(p, "ok", CertificateAuthorityResult(ca))
               /\ loc' = [loc EXCEPT ![p].reply.Name = ca.Name,
                                     ![p].reply.PemCertificateChain = ca.PemCaCertificates]
    /\ UNCHANGED <<pki, cas, tpl, req>>

(***************************************************************************)
(* The specification: one caller at a time uses the adapter.                *)
(***************************************************************************)
Next ==
    \E p \in Callers :
        \/ GetCertificateAuthority(p)
        \/ GetCertificateAuthorityReply(p)
        \/ CreateCertificate(p)
        \/ RenewCertificate(p)
        \/ CreateCertificateReply(p)
        \/ RevokeCertificate(p)
        \/ RevokeCertificateReply(p)
        \/ CreateCertificateAuthority(p)
        \/ CreateCertificateAuthorityReply(p)
        \/ WaitCreateReply(p)
        \/ FetchCsrReply(p)
        \/ SignReply(p)
        \/ ActivateReply(p)
        \/ WaitActivateReply(p)
        \/ Return(p)

Spec == Init /\ [][Next]_vars


(***************************************************************************)
(* Two callers sharing the adapter and the template.  The operations are    *)
(* the ones above, interleaved step by step; the inputs and the replies of  *)
(* the service are narrowed to keep the interleavings within reach.         *)
(***************************************************************************)
Narrow(p) ==
    /\ req[p].op \in {"CreateCertificate", "RenewCertificate",
                      "CreateCertificateAuthority"} => req[p].Lifetime = 1
    /\ req[p].ReasonCode \in {0, 7}
    /\ req[p].Certificate \in
           {NilCert,
            Cert("a", <<OtherExtension,
                        CreateCertificateAuthorityExtension(CloudCASType, <<"u1">>)>>)}
    /\ req[p].CreateKey = NoKey
    /\ req[p].Name = EmptyStr
    /\ req[p].Parent \in {NoParent, [nil |-> FALSE, Name |-> CA1]}
    /\ loc[p].id \in {EmptyStr, <<"u1">>}
    /\ loc[p].caID \in {EmptyStr, <<"u1">>}
    /\ loc[p].reply.PemCertificateChain \in {<< >>, <<Pem(CertA), Pem(CertB)>>}
    /\ loc[p].reply.Name # CA3
    /\ res[p].err.kind \notin {"IDError", "EncodeError", "UnsupportedValue"}
    /\ \A i \in 1..Len(log[p]) : log[p][i].outcome # "timeout"

NextConcurrent ==
    \E p \in AllCallers :
        \/ GetCertificateAuthority(p) /\ Narrow(p)'
        \/ GetCertificateAuthorityReply(p) /\ Narrow(p)'
        \/ CreateCertificate(p) /\ Narrow(p)'
        \/ RenewCertificate(p) /\ Narrow(p)'
        \/ CreateCertificateReply(p) /\ Narrow(p)'
        \/ RevokeCertificate(p) /\ Narrow(p)'
        \/ RevokeCertificateReply(p) /\ Narrow(p)'
        \/ CreateCertificateAuthority(p) /\ Narrow(p)'
        \/ CreateCertificateAuthorityReply(p) /\ Narrow(p)'
        \/ WaitCreateReply(p) /\ Narrow(p)'
        \/ FetchCsrReply(p) /\ Narrow(p)'
        \/ SignReply(p) /\ Narrow(p)'
        \/ ActivateReply(p) /\ Narrow(p)'
        \/ WaitActivateReply(p) /\ Narrow(p)'
        \/ Return(p)

SpecConcurrent == Init /\ [][NextConcurrent]_vars

(***************************************************************************)
(* PKI.GetCertificateAuthority: the bootstrap-side retrieval of the root   *)
(* through a backend constructed for the call.  In this specification cas  *)
(* holds the backend value the call constructed.                           *)
(***************************************************************************)
Fingerprint(crt) == <<"sha256", crt.subject>>

LocalRoot == Cert("local", << >>)

AuthorityOptions(type, opts) == [nil |-> FALSE, Type |-> type, opts |-> opts]

PKIOptions ==
    {NilOptions}
    \cup {AuthorityOptions(CloudCASType, o) : o \in OptionsSet}
    \cup {AuthorityOptions(SoftCASType, Options(FALSE, EmptyStr, EmptyStr, EmptyStr))}

\* cas.New: the constructor registered for the options' type; only the
\* cloudCAS backend offers GetCertificateAuthority
casNew(o, clientOk) ==
    IF o.Type = CloudCASType
    THEN LET c == New(o.opts, clientOk) IN [ok |-> c.ok, getter |-> TRUE, ca |-> c]
    ELSE [ok |-> clientOk, getter |-> FALSE, ca |-> NoCAS]

WriteRootCertificate_FingerprintFirst(p, rootCrt, writeOk) ==
    LET q == [p EXCEPT !.rootFingerprint = Fingerprint(rootCrt)] IN
    IF ~writeOk THEN [err |-> Err("Error", "WriteFile"), pki |-> q]
    ELSE [err |-> NoErr, pki |-> [q EXCEPT !.rootFile = rootCrt]]

WriteRootCertificate(p, rootCrt, writeOk) ==
    IF ~writeOk THEN [err |-> Err("Error", "WriteFile"), pki |-> p]
    ELSE [err |-> NoErr,
          pki |-> [p EXCEPT !.rootFile = rootCrt,
                            !.rootFingerprint = Fingerprint(rootCrt)]]

InitPKI ==
    /\ \E o \in PKIOptions, generated \in BOOLEAN :
           pki = IF generated
                 THEN [WriteRootCertificate(NoPKI, LocalRoot, TRUE).pki
                          EXCEPT !.authorityOptions = o]
                 ELSE [NoPKI EXCEPT !.authorityOptions = o]
    /\ cas = NoCAS
    /\ tpl = [t \in Templates |-> << >>]
    /\ pc = [p \in AllCallers |-> "idle"]
    /\ req = [p \in AllCallers |-> NoReq]
    /\ loc = [p \in AllCallers |-> NoLoc]
    /\ log = [p \in AllCallers |-> << >>]
    /\ res = [p \in AllCallers |-> NoRes]

PKIGetCertificateAuthority(p) ==
    /\ pc[p] = "idle"
    /\ req' = [req EXCEPT ![p] = [NoReq EXCEPT !.op = "PKI.GetCertificateAuthority"]]
    /\ IF pki.authorityOptions.nil
       THEN /\ Finish(p, Panic("authorityOptions"))
            /\ UNCHANGED <<cas, log>>
       ELSE \E clientOk \in BOOLEAN :
                LET n == casNew(pki.authorityOptions, clientOk)
                    name == pki.authorityOptions.opts.CertificateAuthority
                IN
                /\ cas' = n.ca
                /\ IF ~n.ok
                   THEN Finish(p, Fail("Error", "cas.New")) /\ UNCHANGED log
                   ELSE IF ~n.getter
                   THEN Finish(p, Ok(EmptyStr, NilCert, << >>)) /\ UNCHANGED log
                   ELSE Issue(p, "pki_get",
                              [NoCall EXCEPT !.ep = "GetCertificateAuthority",
                                             !.deadline = defaultContext,
                                             !.Name = IF name = EmptyStr
                                                      THEN n.ca.certificateAuthority
                                                      ELSE name])
    /\ UNCHANGED <<pki, tpl, loc>>

PKIGetCertificateAuthorityReply(p) ==
    /\ pc[p] = "pki_get"
    /\ \E ok \in BOOLEAN, chain \in PemChains, writeOk \in BOOLEAN :
           LET resp == GetCertificateAuthorityResult(ok, chain)
               w == WriteRootCertificate(pki, resp.cert, writeOk)
           IN
           /\ loc' = [loc EXCEPT ![p].reply =
                          IF ok THEN [NoReply EXCEPT !.PemCertificateChain = chain]
                          ELSE NoReply]
           /\ IF resp.status # "ok"
              THEN Reply(p, IF ok THEN "ok" ELSE "err", resp) /\ UNCHANGED pki
              ELSE IF w.err # NoErr
              THEN /\ Reply(p, "ok", [NoRes EXCEPT !.status = "error", !.err = w.err])
                   /\ pki' = w.pki
              ELSE /\ Reply(p, "ok", resp)
                   /\ pki' = [w.pki EXCEPT !.intermediate = EmptyStr,
                                           !.intermediateKey = EmptyStr]
    /\ UNCHANGED <<cas, tpl, req>>

NextPKI ==
    \E p \in Callers :
        \/ PKIGetCertificateAuthority(p)
        \/ PKIGetCertificateAuthorityReply(p)
        \/ Return(p)

SpecPKI == InitPKI /\ [][NextPKI]_vars

(***************************************************************************)
(* createCertificate step by step, for two callers that may hold the same  *)
(* template object.  The function changes the template twice (it removes   *)
(* the extension, then appends the new one) and reads it once more to      *)
(* build the request; nothing orders these accesses between callers, so    *)
(* each is a step of its own here.                                         *)
(***************************************************************************)
createCertificateRemove(p) ==
    \E op \in {"CreateCertificate", "RenewCertificate"}, t \in TemplateRefs,
       lifetime \in Lifetimes, rid \in RequestIDs :
        LET err == IF op = "CreateCertificate" THEN CreateCertificateCheck(t, lifetime)
                   ELSE RenewCertificateCheck(t, lifetime)
        IN
        /\ Begin(p, [NoReq EXCEPT !.op = op, !.Template = t,
                                  !.Lifetime = lifetime, !.RequestID = rid])
        /\ IF err # NoErr THEN
               /\ Finish(p, Fail(err.kind, err.what))
               /\ UNCHANGED <<tpl, loc, log>>
           ELSE
               /\ tpl' = [tpl EXCEPT ![t] = RemoveCertificateAuthorityExtension(@)]
               /\ pc' = [pc EXCEPT ![p] = "cc_removed"]
               /\ UNCHANGED <<loc, log, res>>

createCertificateAppend(p) ==
    /\ pc[p] = "cc_removed"
    /\ \E idr \in createCertificateID, extOk \in BOOLEAN :
           IF ~idr.ok THEN
               /\ Finish(p, Fail("IDError", "createCertificateID"))
               /\ UNCHANGED <<tpl, loc>>
           ELSE IF ~extOk THEN
               /\ Finish(p, Fail("EncodeError", "CreateCertificateAuthorityExtension"))
               /\ UNCHANGED <<tpl, loc>>
           ELSE
               /\ tpl' = [tpl EXCEPT ![req[p].Template] =
                              Append(@, CreateCertificateAuthorityExtension(CloudCASType,
                                                                            idr.id))]
               /\ loc' = [loc EXCEPT ![p].id = idr.id]
               /\ pc' = [pc EXCEPT ![p] = "cc_tagged"]
               /\ UNCHANGED res
    /\ UNCHANGED <<pki, cas, req, log>>

createCertificateSubmit(p) ==
    /\ pc[p] = "cc_tagged"
    /\ \E cfgOk \in BOOLEAN :
           IF ~cfgOk THEN
               /\ Finish(p, Fail("UnsupportedValue", "createCertificateConfig"))
               /\ UNCHANGED log
           ELSE
               Issue(p, "create",
                     [NoCall EXCEPT !.ep = "CreateCertificate",
                                    !.deadline = defaultContext,
                                    !.Name = cas.certificateAuthority,
                                    !.Id = loc[p].id,
                                    !.exts = tpl[req[p].Template],
                                    !.RequestId = req[p].RequestID])
    /\ UNCHANGED <<pki, cas, tpl, req, loc>>

NextRace ==
    \E p \in AllCallers :
        \/ createCertificateRemove(p)
        \/ createCertificateAppend(p)
        \/ createCertificateSubmit(p)
        \/ CreateCertificateReply(p) /\ Narrow(p)'
        \/ Return(p)

SpecRace == Init /\ [][NextRace]_vars

(***************************************************************************)
(* Properties.                                                              *)
(***************************************************************************)
Eps(l) == [i \in 1..Len(l) |-> l[i].ep]
IsPrefix(a, b) == Len(a) <= Len(b) /\ \A i \in 1..Len(a) : a[i] = b[i]

TemplateOps == {"CreateCertificate", "RenewCertificate", "CreateCertificateAuthority"}
CertificateOps == {"CreateCertificate", "RenewCertificate", "RevokeCertificate"}
ValidReasons == {0, 1, 2, 3, 4, 5, 6, 9, 10}

HandshakeOrder ==
    <<"CreateCertificateAuthority", "Wait", "FetchCertificateAuthorityCsr",
      "CreateCertificate", "ActivateCertificateAuthority", "Wait">>

\* C1: a create, renew or create-authority request with a nil template or a
\* zero lifetime ends at once with a ValidationError, and the log of remote
\* calls of that request is empty.
C1_InvalidRequestNoCall ==
    \A p \in Callers :
        (/\ pc[p] # "idle"
         /\ req[p].op \in TemplateOps
         /\ (req[p].Template = "nil" \/ req[p].Lifetime = 0))
        => /\ pc[p] = "done"
           /\ res[p].status = "error"
           /\ res[p].err.kind = "ValidationError"
           /\ log[p] = << >>

C1_Witness ==
    \E p \in Callers :
        /\ pc[p] = "done"
        /\ req[p].op = "CreateCertificateAuthority"
        /\ req[p].Template # "nil"
        /\ req[p].Lifetime = 0
        /\ req[p].Type = IntermediateCA
        /\ req[p].Parent.nil
        /\ res[p].err = Err("ValidationError", "lifetime")
        /\ log[p] = << >>

\* C2: in an Intermediate authority creation the remote calls are a prefix of
\* create, wait, fetch CSR (new authority), sign (parent), activate (new
\* authority), wait; each position of the call corresponds to one length of
\* that prefix, and a successful response needs all six, the last one
\* succeeded.
C2_HandshakeOrder ==
    \A p \in Callers :
        (req[p].op = "CreateCertificateAuthority" /\ req[p].Type = IntermediateCA)
        => /\ IsPrefix(Eps(log[p]), HandshakeOrder)
           /\ pc[p] = "ca_create" => Len(log[p]) = 1
           /\ pc[p] = "ca_wait" => Len(log[p]) = 2
           /\ pc[p] = "ca_csr" => Len(log[p]) = 3
           /\ pc[p] = "ca_sign" => Len(log[p]) = 4
           /\ pc[p] = "ca_activate" => Len(log[p]) = 5
           /\ pc[p] = "ca_actwait" => Len(log[p]) = 6
           /\ Len(log[p]) >= 3 => log[p][3].Name = loc[p].name
           /\ Len(log[p]) >= 4 => log[p][4].Name = req[p].Parent.Name
           /\ Len(log[p]) >= 5 => log[p][5].Name = loc[p].name
           /\ (pc[p] = "done" /\ res[p].status = "ok")
              => /\ Len(log[p]) = 6
                 /\ \A i \in 1..6 : log[p][i].outcome = "ok"

C2_Witness ==
    \E p \in Callers :
        /\ pc[p] = "done"
        /\ req[p].op = "CreateCertificateAuthority"
        /\ req[p].Type = IntermediateCA
        /\ res[p].status = "ok"
        /\ Eps(log[p]) = HandshakeOrder

\* C3: in an authority creation no remote call follows a failed one: every
\* call but the last of the log succeeded, and once a call has failed the
\* operation has returned an error.
C3_FailureIsTerminal ==
    \A p \in Callers :
        req[p].op = "CreateCertificateAuthority"
        => /\ \A i \in 1..(Len(log[p]) - 1) : log[p][i].outcome = "ok"
           /\ \A i \in 1..Len(log[p]) : log[p][i].ep \in {HandshakeOrder[j] : j \in 1..6}
           /\ (Len(log[p]) > 0 /\ Last(log[p]).outcome \in {"err", "timeout"})
              => pc[p] = "done" /\ res[p].status = "error"

C3_Witness ==
    \E p \in Callers :
        /\ pc[p] = "done"
        /\ req[p].op = "CreateCertificateAuthority"
        /\ Len(log[p]) = 3
        /\ Last(log[p]).ep = "FetchCertificateAuthorityCsr"
        /\ Last(log[p]).outcome = "err"
        /\ res[p].status = "error"

\* C4: when a wait on a long-running operation times out, the authority
\* creation has failed with OperationTimeout, its response has no name,
\* certificate or chain, and the wait is the last remote call made.
C4_WaitTimeout ==
    \A p \in Callers :
        \A i \in 1..Len(log[p]) :
            (req[p].op = "CreateCertificateAuthority" /\ log[p][i].outcome = "timeout")
            => /\ log[p][i].ep = "Wait"
               /\ i = Len(log[p])
               /\ pc[p] = "done"
               /\ res[p].status = "error"
               /\ res[p].err.kind = "OperationTimeout"
               /\ res[p].name = EmptyStr
               /\ res[p].cert = NilCert
               /\ res[p].chain = << >>

C4_Witness ==
    \E p \in Callers :
        /\ pc[p] = "done"
        /\ req[p].op = "CreateCertificateAuthority"
        /\ Len(log[p]) = 6
        /\ Last(log[p]).outcome = "timeout"
        /\ res[p].err.kind = "OperationTimeout"

\* C5: every template submitted to the remote API carries at most one
\* correlation extension.
C5_AtMostOneExtension ==
    \A p \in Callers :
        \A i \in 1..Len(log[p]) : CountCAS(log[p][i].exts) <= 1

C7_Original ==
    \A p \in Callers :
        (/\ pc[p] # "idle"
         /\ req[p].op = "RevokeCertificate"
         /\ ~req[p].Certificate.nil
         /\ CountCAS(req[p].Certificate.Extensions) = 0)
        => /\ pc[p] = "done"
           /\ res[p].err.kind = "MissingCorrelation"
           /\ log[p] = << >>

\* C7 amended: revoking, with a supported reason code, a certificate without
\* correlation extension fails with MissingCorrelation; with any reason code
\* it fails and makes no remote call.
C7_MissingCorrelation ==
    \A p \in Callers :
        (/\ pc[p] # "idle"
         /\ req[p].op = "RevokeCertificate"
         /\ ~req[p].Certificate.nil
         /\ CountCAS(req[p].Certificate.Extensions) = 0)
        => /\ pc[p] = "done"
           /\ res[p].status = "error"
           /\ log[p] = << >>
           /\ req[p].ReasonCode \in ValidReasons => res[p].err.kind = "MissingCorrelation"

C7_Witness ==
    \E p \in Callers :
        /\ pc[p] = "done"
        /\ req[p].op = "RevokeCertificate"
        /\ req[p].Certificate = Cert("a", <<OtherExtension>>)
        /\ req[p].ReasonCode = 1
        /\ res[p].err.kind = "MissingCorrelation"
        /\ log[p] = << >>

\* C8: a revocation with a reason code outside {0,1,2,3,4,5,6,9,10} is
\* rejected with InvalidRevocationReason before any remote call, whatever the
\* certificate; a code of that set is never rejected as invalid and is sent
\* as the reason the table gives.
C8_ReasonCodes ==
    \A p \in Callers :
        (pc[p] # "idle" /\ req[p].op = "RevokeCertificate")
        => /\ req[p].ReasonCode \notin ValidReasons
              => /\ pc[p] = "done"
                 /\ res[p].status = "error"
                 /\ res[p].err.kind = "InvalidRevocationReason"
                 /\ log[p] = << >>
           /\ req[p].ReasonCode \in ValidReasons
              => /\ res[p].err.kind # "InvalidRevocationReason"
                 /\ Len(log[p]) > 0 => log[p][1].Reason # ""

C8_Witness ==
    \E p \in Callers :
        /\ pc[p] = "done"
        /\ req[p].op = "RevokeCertificate"
        /\ req[p].ReasonCode = 8
        /\ FindCertificateAuthorityExtension(req[p].Certificate).ok
        /\ res[p].err.kind = "InvalidRevocationReason"
        /\ log[p] = << >>

\* C9: an Intermediate authority creation with a nil parent or an empty
\* parent name fails with a ValidationError before any remote call; a Root
\* creation is never rejected for its parent.
C9_ParentRequired ==
    \A p \in Callers :
        (pc[p] # "idle" /\ req[p].op = "CreateCertificateAuthority")
        => /\ (req[p].Type = IntermediateCA
               /\ (req[p].Parent.nil \/ req[p].Parent.Name = EmptyStr))
              => /\ pc[p] = "done"
                 /\ res[p].status = "error"
                 /\ res[p].err.kind = "ValidationError"
                 /\ log[p] = << >>
           /\ req[p].Type = RootCA => res[p].err.what \notin {"parent", "parent.name"}

C9_Witness ==
    \E p \in Callers :
        /\ pc[p] = "done"
        /\ req[p].op = "CreateCertificateAuthority"
        /\ req[p].Type = IntermediateCA
        /\ req[p].Template # "nil"
        /\ req[p].Lifetime # 0
        /\ req[p].Parent.nil
        /\ res[p].err = Err("ValidationError", "parent")
        /\ log[p] = << >>

\* C10: GetCertificateAuthority fails with EmptyChain and returns no root
\* when the remote chain is empty; when it succeeds the root is the last
\* element of the remote chain and nothing else is returned, and it succeeds
\* whenever the last element of a non-empty chain is a certificate.
C10_RootIsLast ==
    \A p \in Callers :
        (pc[p] = "done" /\ req[p].op = "GetCertificateAuthority"
         /\ log[p][1].outcome = "ok")
        => LET pems == loc[p].reply.PemCertificateChain
               n == Len(pems)
           IN
           /\ n = 0 => /\ res[p].status = "error"
                       /\ res[p].err.kind = "EmptyChain"
                       /\ res[p].cert = NilCert
           /\ (n > 0 /\ pems[n].pemok) => res[p].status = "ok"
           /\ res[p].status = "ok"
              => /\ n > 0
                 /\ res[p].cert = pems[n].der
                 /\ res[p].chain = << >>

C10_Witness ==
    \E p \in Callers :
        /\ pc[p] = "done"
        /\ req[p].op = "GetCertificateAuthority"
        /\ loc[p].reply.PemCertificateChain = <<Pem(CertA), Pem(CertB)>>
        /\ res[p].status = "ok"
        /\ res[p].cert = CertB


(***************************************************************************)
(* What CreateCertificate and RenewCertificate do to a request already      *)
(* taken, each with its own validation, read on a step of the program.      *)
(***************************************************************************)
CreateCertificateEffect(p) ==
    LET r == req'[p]
        err == CreateCertificateCheck(r.Template, r.Lifetime)
    IN  IF err # NoErr THEN
            /\ Finish(p, Fail(err.kind, err.what))
            /\ UNCHANGED <<tpl, loc, log>>
        ELSE createCertificate(p, r.Template, r.Lifetime, r.RequestID)

RenewCertificateEffect(p) ==
    LET r == req'[p]
        err == RenewCertificateCheck(r.Template, r.Lifetime)
    IN  IF err # NoErr THEN
            /\ Finish(p, Fail(err.kind, err.what))
            /\ UNCHANGED <<tpl, loc, log>>
        ELSE createCertificate(p, r.Template, r.Lifetime, r.RequestID)

\* C11: RenewCertificate is equivalent to CreateCertificate.  Every step in
\* which a caller enters RenewCertificate with a template, lifetime and
\* request identifier is, but for the name of the operation, a step that
\* CreateCertificate can take from the same state with the same inputs (same
\* validation error, same template change, same remote request up to the
\* fresh identifier), and every CreateCertificate step is likewise one that
\* RenewCertificate can take; the reply of the remote call is then handled
\* by the same code.
C11_RenewIsCreate ==
    [][\A p \in Callers :
          (pc[p] = "idle" /\ pc'[p] # "idle") =>
              /\ req'[p].op = "RenewCertificate" => CreateCertificateEffect(p)
              /\ req'[p].op = "CreateCertificate" => RenewCertificateEffect(p)]_vars

C11_Witness ==
    /\ req["c1"].op = "RenewCertificate"
    /\ pc["c1"] = "done"
    /\ res["c1"].status = "ok"
    /\ Len(log["c1"]) = 1
    /\ log["c1"][1].ep = "CreateCertificate"
    /\ log["c1"][1].RequestId = req["c1"].RequestID

\* C12: no operation of the adapter, whether it succeeds or fails, changes
\* the adapter's own state: the client handle, the authority resource
\* identifier, the project and the location are after every step of every
\* operation, in any sequence and any interleaving of two callers, what
\* construction made them.
C12_AdapterUnchanged == [][cas' = cas]_vars

C12_Witness ==
    /\ cas.ok
    /\ pc["c1"] = "done" /\ req["c1"].op = "CreateCertificateAuthority"
    /\ req["c1"].Type = IntermediateCA /\ res["c1"].status = "ok"
    /\ pc["c2"] = "done" /\ req["c2"].op = "RevokeCertificate"
    /\ res["c2"].status = "error"

\* C13: normalizeCertificateAuthorityName leaves every ASCII letter, digit,
\* hyphen and underscore of a name unchanged and replaces every other
\* character by a hyphen, position by position, so the length in characters
\* is preserved; and normalizing an already normalized name changes nothing.
C13_Normalize ==
    \A p \in Callers :
        req[p].op = "normalize" =>
            /\ pc[p] \in {"done", "again"} =>
                   /\ Len(res[p].name) = Len(req[p].Name)
                   /\ \A i \in 1..Len(req[p].Name) :
                          res[p].name[i] =
                              IF req[p].Name[i] \in
                                     {"a", "m", "z", "A", "Z", "0", "9", "-", "_"}
                              THEN req[p].Name[i] ELSE "-"
            /\ pc[p] = "again" => loc[p].name = res[p].name

C13_Witness ==
    /\ pc["c1"] = "again"
    /\ req["c1"].Name = <<"z", "{">>
    /\ res["c1"].name = <<"z", "-">>
    /\ loc["c1"].name = <<"z", "-">>

NoSlash(s) == s # << >> /\ \A k \in 1..Len(s) : s[k] # "/"

\* s is projects/<P>/locations/<L>/certificateAuthorities/<n>, each segment
\* non-empty and free of slashes
IsAuthorityOf(s, P, L) ==
    \E n \in {SubSeq(s, k, Len(s)) : k \in 1..Len(s)} :
        /\ NoSlash(P) /\ NoSlash(L) /\ NoSlash(n)
        /\ s = <<"projects", "/">> \o P \o <<"/", "locations", "/">> \o L
                   \o <<"/", "certificateAuthorities", "/">> \o n

Segments(s) == {SubSeq(s, i, j) : i \in 1..Len(s), j \in 1..Len(s)}

\* C14: construction with is-creator false fails, and no remote client is
\* constructed, when the authority resource identifier is empty or is not of
\* the form projects/<p>/locations/<l>/certificateAuthorities/<n>; when it
\* succeeds the adapter's project and location are the values given
\* explicitly where given and the <p> and <l> segments otherwise; so every
\* adapter that construction yields, creator or not, has a non-empty project
\* and a non-empty location.
C14_Construction ==
    \A p \in Callers :
        (req[p].op = "New" /\ pc[p] = "done") =>
            LET o == req[p].opts
                ca == o.CertificateAuthority
                wellFormed == \E P \in Segments(ca), L \in Segments(ca) :
                                  IsAuthorityOf(ca, P, L)
            IN
            /\ (~o.IsCreator /\ (ca = EmptyStr \/ ~wellFormed)) =>
                   /\ ~cas.ok
                   /\ cas.clients = 0
                   /\ res[p].status = "error"
            /\ cas.ok =>
                   /\ res[p].status = "ok"
                   /\ cas.clients = 1
                   /\ cas.certificateAuthority = ca
                   /\ o.Project # EmptyStr => cas.project = o.Project
                   /\ o.Location # EmptyStr => cas.location = o.Location
                   /\ o.Project = EmptyStr =>
                          \E L \in Segments(ca) : IsAuthorityOf(ca, cas.project, L)
                   /\ o.Location = EmptyStr =>
                          \E P \in Segments(ca) : IsAuthorityOf(ca, P, cas.location)
                   /\ cas.project # EmptyStr
                   /\ cas.location # EmptyStr

C14_Witness ==
    /\ req["c1"].op = "New" /\ pc["c1"] = "done"
    /\ ~req["c1"].opts.IsCreator
    /\ req["c1"].opts.CertificateAuthority = CA1
    /\ req["c1"].opts.Project = <<"p9">>
    /\ req["c1"].opts.Location = EmptyStr
    /\ cas.ok /\ cas.project = <<"p9">> /\ cas.location = <<"l1">>

\* the caller's CreateCertificateAuthority has had its last remote answer:
\* the creation operation for a root, the activation operation for an
\* intermediate, completed without error
AuthorityCompleted(p) ==
    /\ pc[p] = "done"
    /\ req[p].op = "CreateCertificateAuthority"
    /\ Len(log[p]) = (IF req[p].Type = IntermediateCA THEN 6 ELSE 2)
    /\ Last(log[p]).ep = "Wait"
    /\ Last(log[p]).outcome = "ok"

LocalFault(c, r) ==
    \/ c.project = EmptyStr
    \/ c.location = EmptyStr
    \/ r.Template = "nil"
    \/ r.Lifetime = 0
    \/ r.Type = IntermediateCA /\ (r.Parent.nil \/ r.Parent.Name = EmptyStr)
    \/ r.CreateKey = Key("SHA256WithRSA", 1024)
    \/ r.Type \notin {RootCA, IntermediateCA}

\* C16: every failure CreateCertificateAuthority detects locally (unknown
\* project or location, nil template, zero lifetime, missing parent of an
\* intermediate, unsupported key algorithm or size, unsupported authority
\* type) is reported before any remote call: the operation ends in an error
\* with no call made.
C16_LocalFailuresFirst ==
    \A p \in Callers :
        (req[p].op = "CreateCertificateAuthority" /\ pc[p] # "idle") =>
            /\ LocalFault(cas, req[p]) =>
                   /\ pc[p] = "done"
                   /\ res[p].status = "error"
                   /\ log[p] = << >>
            /\ (pc[p] = "done"
                /\ res[p].err.kind \in {"ConfigError", "ValidationError", "UnsupportedValue"})
               => log[p] = << >>

C16_Witness ==
    /\ req["c1"].op = "CreateCertificateAuthority"
    /\ pc["c1"] = "done"
    /\ req["c1"].Template = "t1" /\ req["c1"].Lifetime = 1
    /\ req["c1"].Type = 0
    /\ res["c1"].err = Err("UnsupportedValue", "type")
    /\ log["c1"] = << >>

\* C17: in every remote create request made for CreateCertificate,
\* RenewCertificate or CreateCertificateAuthority, the submitted template
\* carries a correlation extension, and what a correlation extension of the
\* submitted template holds is this backend's type and the identifier sent
\* in the request (CertificateId, CertificateAuthorityId).
C17_IdInExtension ==
    \A p \in Callers :
        \A i \in 1..Len(log[p]) :
            LET call == log[p][i] IN
            (\/ call.ep = "CreateCertificateAuthority"
             \/ call.ep = "CreateCertificate"
                /\ req[p].op \in {"CreateCertificate", "RenewCertificate"})
            => /\ \E k \in 1..Len(call.exts) : call.exts[k].Id = OidCAS
               /\ \A k \in 1..Len(call.exts) :
                      call.exts[k].Id = OidCAS =>
                          /\ call.exts[k].Value.asn1ok
                          /\ call.exts[k].Value.Type = CloudCASType
                          /\ call.exts[k].Value.CertificateID = call.Id

\* the correlation extensions of a certificate, in their order
CorrelationExtensions(cert) ==
    SelectSeq(cert.Extensions, LAMBDA e : e.Id = OidCAS)

\* C18: RevokeCertificate makes at most one remote call, a revoke call
\* addressed to exactly <configured authority>/certificates/<id>, <id> being
\* the certificateID held by the correlation extension of the presented
\* certificate, with the mapped reason and the caller's request identifier;
\* hence for a certificate carrying the extension that CreateCertificate
\* submitted with CertificateId i, the call is addressed to
\* <configured authority>/certificates/i.
C18_RevokeAddress ==
    \A p \in Callers :
        (req[p].op = "RevokeCertificate" /\ log[p] # << >>) =>
            LET call == log[p][1]
                found == CorrelationExtensions(req[p].Certificate)
            IN
            /\ Len(log[p]) = 1
            /\ call.ep = "RevokeCertificate"
            /\ found # << >>
            /\ call.Name = cas.certificateAuthority \o <<"/", "certificates", "/">>
                               \o found[1].Value.CertificateID
            /\ call.Reason = revocationCodeMap[req[p].ReasonCode]
            /\ call.RequestId = req[p].RequestID
            /\ \A i \in IDs :
                   found = <<CreateCertificateAuthorityExtension(CloudCASType, i)>>
                   => call.Name = cas.certificateAuthority
                                      \o <<"/", "certificates", "/">> \o i

C18_Witness ==
    /\ req["c1"].op = "RevokeCertificate"
    /\ pc["c1"] = "done"
    /\ res["c1"].status = "ok"
    /\ req["c1"].ReasonCode = 1
    /\ req["c1"].Certificate.Extensions =
           <<OtherExtension, CreateCertificateAuthorityExtension(CloudCASType, <<"u1">>)>>
    /\ log["c1"][1].Name = CA1 \o <<"/", "certificates", "/", "u1">>
    /\ log["c1"][1].RequestId = <<"r1">>

\* the extensions of a list that are not correlation extensions, in their order
OtherExtensions(exts) == SelectSeq(exts, LAMBDA e : e.Id # OidCAS)

C20_HandshakeData ==
    \A p \in Callers :
        (req[p].op = "CreateCertificateAuthority" /\ req[p].Type = IntermediateCA) =>
            LET l == log[p]
                n == Len(l)
            IN
            /\ n >= 3 => /\ l[3].ep = "FetchCertificateAuthorityCsr"
                         /\ l[3].Name = l[2].Reported.Name
            /\ n >= 4 => /\ l[4].ep = "CreateCertificate"
                         /\ l[4].Name = req[p].Parent.Name
                         /\ l[4].PemCsr = l[3].Reported.PemCsr
            /\ n >= 5 => /\ l[5].ep = "ActivateCertificateAuthority"
                         /\ l[5].Name = l[2].Reported.Name
                         /\ l[5].PemCertificate = l[4].Reported.PemCertificate
                         /\ l[5].PemChain = l[4].Reported.PemCertificateChain

C20_Witness ==
    /\ req["c1"].op = "CreateCertificateAuthority"
    /\ req["c1"].Type = IntermediateCA
    /\ pc["c1"] = "done" /\ res["c1"].status = "ok"
    /\ Len(log["c1"]) = 6
    /\ log["c1"][2].Reported.Name = CA3
    /\ log["c1"][3].Reported.PemCsr = "csr-ca3"
    /\ log["c1"][4].Name = CA1
    /\ log["c1"][5].Name = CA3
    /\ log["c1"][5].PemCertificate = Pem(Cert("csr-ca3", << >>))
    /\ log["c1"][5].PemChain = <<Pem(CertB)>>
    /\ loc["c1"].reply.Name = CA2

\* C21: a CreateCertificateAuthority call of type Root performs no step of
\* the handshake: its remote calls are a prefix of one create call and one
\* wait, it is never at a step of the handshake, none of
\* FetchCertificateAuthorityCsr, CreateCertificate and
\* ActivateCertificateAuthority is called, and when it has answered after a
\* completed wait it has made exactly the two.
C21_RootNoHandshake ==
    \A p \in Callers :
        (req[p].op = "CreateCertificateAuthority" /\ req[p].Type = RootCA) =>
            /\ IsPrefix(Eps(log[p]), <<"CreateCertificateAuthority", "Wait">>)
            /\ pc[p] \notin {"ca_csr", "ca_sign", "ca_activate", "ca_actwait"}
            /\ \A i \in 1..Len(log[p]) :
                   log[p][i].ep \notin {"FetchCertificateAuthorityCsr", "CreateCertificate",
                                        "ActivateCertificateAuthority"}
            /\ (pc[p] = "done" /\ res[p].status = "ok") =>
                   Eps(log[p]) = <<"CreateCertificateAuthority", "Wait">>

C21_Witness ==
    /\ req["c1"].op = "CreateCertificateAuthority"
    /\ req["c1"].Type = RootCA
    /\ pc["c1"] = "done"
    /\ res["c1"].status = "ok"
    /\ Eps(log["c1"]) = <<"CreateCertificateAuthority", "Wait">>
    /\ log["c1"][2].outcome = "ok"

\* the endpoints of the remote client
Endpoints ==
    {"CreateCertificate", "RevokeCertificate", "GetCertificateAuthority",
     "CreateCertificateAuthority", "FetchCertificateAuthorityCsr",
     "ActivateCertificateAuthority"}

\* C22: the adapter performs no retries.  Within one operation each endpoint
\* of the remote client is called at most once; GetCertificateAuthority,
\* CreateCertificate, RenewCertificate and RevokeCertificate make at most one
\* remote call in all; no call follows a call that failed; and once a call
\* has failed the operation has returned an error that is that failure (a
\* remote error or an expired deadline, naming the call).
C22_NoRetries ==
    \A p \in Callers :
        LET l == log[p] IN
        /\ \A e \in Endpoints : Cardinality({i \in 1..Len(l) : l[i].ep = e}) <= 1
        /\ req[p].op \in {"GetCertificateAuthority", "CreateCertificate",
                          "RenewCertificate", "RevokeCertificate"} => Len(l) <= 1
        /\ \A i \in 1..(Len(l) - 1) : l[i].outcome = "ok"
        /\ (l # << >> /\ Last(l).outcome \in {"err", "timeout"}) =>
               /\ pc[p] = "done"
               /\ res[p].status = "error"
               /\ res[p].err.kind =
                      (IF Last(l).outcome = "timeout" THEN "OperationTimeout"
                       ELSE "RemoteError")
               /\ \/ res[p].err.what = Last(l).ep
                  \/ Last(l).ep = "Wait" /\ res[p].err.what = l[Len(l) - 1].ep
                  \/ Last(l).ep = "ActivateCertificateAuthority"
                     /\ res[p].err.what = "ActivateCertificateAuthority1"

C22_Witness ==
    /\ req["c1"].op = "RevokeCertificate"
    /\ pc["c1"] = "done"
    /\ Len(log["c1"]) = 1
    /\ log["c1"][1].outcome = "err"
    /\ res["c1"].err = Err("RemoteError", "RevokeCertificate")

\* C23: every remote call is made under the deadline class assigned to it:
\* the get call, the create-certificate call of a leaf issuance and the
\* revoke call under the short deadline; the authority-creation call, the
\* CSR fetch, the activation call and the waits on long-running operations
\* under the long deadline; and no call is made without a deadline.
C23_DeadlineClasses ==
    \A p \in Callers :
        \A i \in 1..Len(log[p]) :
            LET call == log[p][i] IN
            /\ call.deadline \in {defaultContext, defaultInitiatorContext}
            /\ call.ep \in {"GetCertificateAuthority", "RevokeCertificate"}
                   => call.deadline = defaultContext
            /\ (call.ep = "CreateCertificate"
                /\ req[p].op \in {"CreateCertificate", "RenewCertificate"})
                   => call.deadline = defaultContext
            /\ call.ep \in {"CreateCertificateAuthority", "FetchCertificateAuthorityCsr",
                            "ActivateCertificateAuthority", "Wait"}
                   => call.deadline = defaultInitiatorContext

\* C24: when the remote create-certificate or revoke call succeeds but its
\* payload is empty or invalid, in particular when the certificate chain is
\* empty, CreateCertificate, RenewCertificate and RevokeCertificate return an
\* error; no remote response makes the operation end abnormally instead of
\* returning a result or an error.
C24_NoAbnormalEnd ==
    \A p \in Callers :
        (pc[p] = "done" /\ req[p].op \in CertificateOps) =>
            /\ res[p].status \in {"ok", "error"}
            /\ (/\ Len(log[p]) = 1
                /\ log[p][1].outcome = "ok"
                /\ \/ loc[p].reply.PemCertificateChain = << >>
                   \/ ~loc[p].reply.PemCertificate.pemok)
               => res[p].status = "error"

\* C25: for every interleaving of concurrent CreateCertificate and
\* RenewCertificate calls on one adapter, calls given the same template
\* object included, each request submitted to the remote service carries
\* exactly one correlation extension and the identifier in that extension is
\* the CertificateId of that same request.
C25_ConcurrentRequests ==
    \A p \in AllCallers :
        \A i \in 1..Len(log[p]) :
            LET call == log[p][i]
                found == SelectSeq(call.exts, LAMBDA e : e.Id = OidCAS)
            IN
            call.ep = "CreateCertificate" =>
                /\ Len(found) = 1
                /\ found[1].Value.CertificateID = call.Id

PKIState(k) == <<k.rootFingerprint, k.intermediate, k.intermediateKey>>

PKICompletes(p) ==
    /\ pc[p] # "done"
    /\ pc'[p] = "done"
    /\ req'[p].op = "PKI.GetCertificateAuthority"

\* C26: PKI.GetCertificateAuthority changes the root fingerprint and the
\* intermediate certificate and key paths only on the step that completes a
\* successful retrieval and write, which sets the fingerprint to that of the
\* retrieved root and clears both paths; with a backend that offers no root
\* retrieval the call returns without error and the three fields keep their
\* values; when construction, retrieval or the write fails the call returns
\* the error and the three fields keep their values.
C26_RootRetrievalFrame ==
    [][\A p \in Callers :
          LET retrieved == /\ PKICompletes(p)
                           /\ res'[p].status = "ok"
                           /\ Len(log'[p]) = 1
                           /\ log'[p][1].outcome = "ok"
          IN
          /\ PKIState(pki') # PKIState(pki) => retrieved
          /\ retrieved =>
                 /\ pki'.rootFingerprint = Fingerprint(res'[p].cert)
                 /\ pki'.rootFingerprint # EmptyStr
                 /\ pki'.rootFile = res'[p].cert
                 /\ pki'.intermediate = EmptyStr
                 /\ pki'.intermediateKey = EmptyStr
          /\ (PKICompletes(p) /\ ~pki.authorityOptions.nil
                /\ pki.authorityOptions.Type = SoftCASType) =>
                 /\ res'[p].status = "ok" \/ res'[p].err = Err("Error", "cas.New")
                 /\ log'[p] = << >>
                 /\ pki' = pki
          /\ (PKICompletes(p) /\ res'[p].status = "ok" /\ log'[p] = << >>) =>
                 /\ pki.authorityOptions.Type = SoftCASType
                 /\ pki' = pki
          /\ (PKICompletes(p) /\ res'[p].status # "ok") => pki' = pki
      ]_vars

C26_Witness ==
    \E p \in Callers :
        /\ pc[p] = "done"
        /\ req[p].op = "PKI.GetCertificateAuthority"
        /\ res[p].status = "ok"
        /\ Len(log[p]) = 1
        /\ log[p][1].outcome = "ok"
        /\ pki.rootFingerprint = Fingerprint(res[p].cert)
        /\ pki.intermediate = EmptyStr
        /\ pki.intermediateKey = EmptyStr

\* C27: the authority identifier of a remote create-authority request is
\* never empty; with a name given it is that name, character by character,
\* with every character outside letters, digits, hyphen and underscore
\* replaced by a hyphen (also when that replaces all of them); it is a
\* generated identifier exactly when the name is empty.
C27_AuthorityId ==
    \A p \in Callers : \A i \in 1..Len(log[p]) :
        log[p][i].ep = "CreateCertificateAuthority" =>
            LET id == log[p][i].Id
                name == req[p].Name
            IN
            /\ id # EmptyStr
            /\ name # EmptyStr =>
                   /\ Len(id) = Len(name)
                   /\ \A k \in 1..Len(name) : id[k] = normalizeRune(name[k])
            /\ name = EmptyStr <=> id \in IDs

C27_Witness ==
    \E p \in Callers :
        /\ Len(log[p]) >= 1
        /\ log[p][1].ep = "CreateCertificateAuthority"
        /\ req[p].Name = <<" ">>
        /\ log[p][1].Id = <<"-">>

\* C28: a remote revoke call is made only for a certificate whose
\* correlation extension names this backend (cloudCAS); a certificate tagged
\* by another backend is rejected without a revoke call.
C28_RevokeOwnOnly ==
    \A p \in Callers : \A i \in 1..Len(log[p]) :
        log[p][i].ep = "RevokeCertificate" =>
            LET found == FindCertificateAuthorityExtension(req[p].Certificate) IN
            /\ found.ok
            /\ asn1Unmarshal(found.ext.Value).ok
            /\ asn1Unmarshal(found.ext.Value).cae.Type = CloudCASType

LocallyRejected(p) ==
    /\ pc[p] = "idle"
    /\ pc'[p] = "done"
    /\ req'[p].op \in {"CreateCertificate", "RenewCertificate", "CreateCertificateAuthority"}
    /\ res'[p].status = "error"
    /\ log'[p] = << >>

\* C29: a CreateCertificate, RenewCertificate or CreateCertificateAuthority
\* call that is rejected before any remote call leaves every template as it
\* was.
C29_RejectedLeavesTemplate ==
    [][\A p \in Callers : LocallyRejected(p) => tpl' = tpl]_vars

\* C30: in the subordinate-signing handshake the CertificateId of the request
\* sent to the parent's signing endpoint equals the identifier in the
\* correlation extension that the call appended to the authority's template.
C30_SignIdIsTemplateId ==
    \A p \in Callers : \A i \in 1..Len(log[p]) :
        (req[p].op = "CreateCertificateAuthority" /\ log[p][i].ep = "CreateCertificate") =>
            LET exts == tpl[req[p].Template] IN
            /\ Len(exts) >= 1
            /\ log[p][i].Id = exts[Len(exts)].Value.CertificateID
====
